---- MODULE Spec2Model ----
(***************************************************************************)
(* Model of src/tide_lts/main.py: the tide-light controller.               *)
(*                                                                         *)
(* Time is measured in whole hours.  Timestamps of tide events and the     *)
(* wall clock take values on a grid of Grain hours; one pass through       *)
(* sleep(300) either stays on the same grid point or moves to the next.    *)
(* All datetime.now() reads of one loop iteration see the same instant.    *)
(* The float quotient of line 248 is kept as an exact fraction <<n, d>>.   *)
(* Rows carry the fields 't', 'v' and 'type'; the water level 'v' is      *)
(* never read by the logic and takes a single value.                       *)
(* fetches counts the calls of get_tide_data_now and stops at MaxFetches.  *)
(***************************************************************************)
EXTENDS Integers, Sequences, FiniteSets

VARIABLES
    num_pixels_to_use,     \* sys.argv[2], the strip length N
    now,                   \* the wall clock, in hours
    data_csv,              \* the file data.csv: <<>> = missing, <<rows>> = present
    data,                  \* the module-level list `data`
    next_tide,             \* <<>> while unbound, <<row>> once bound
    prev_tide,             \* <<>> while unbound, <<row>> once bound
    tide_direction,        \* "unbound", "rising" or "falling"
    proportion_to_light,   \* <<>> while unbound, <<<<n, d>>>> once bound
    pixels_to_light,       \* the list of positions to light, as a set
    light_color,           \* "unbound", "rising_color" or "falling_color"
    tide_position_strip,   \* the pixel buffer: position -> color
    pc,                    \* the statement the process is at
    fetches,               \* calls of noaa.get_tide_data_now so far
    fault                  \* the uncaught exception that ended the process

vars == <<num_pixels_to_use, now, data_csv, data, next_tide, prev_tide,
          tide_direction, proportion_to_light, pixels_to_light, light_color,
          tide_position_strip, pc, fetches, fault>>

(***************************************************************************)
(* Bounds of the model.                                                    *)
(***************************************************************************)
MaxN == 3
MaxLen == 3
Grain == 16
MaxHour == 48
MaxDen == 6
MaxStrip == 10
MaxFetches == 2

(***************************************************************************)
(* Program constants.                                                      *)
(***************************************************************************)
StaleHours == 32
WindowHours == 24
EmptyEarliest == 999

\* strip lengths tried: the short ones and the 10-pixel strip of the
\* documented scenario
StripLengths == (1..MaxN) \cup {10}

Hours == {h \in 0..MaxHour : h % Grain = 0}
\* timestamps of events: the clock's range and one grid point beyond it
EventHours == {h \in 0..(MaxHour + Grain) : h % Grain = 0}
Kinds == {"H", "L"}
Levels == {"1.5"}
Rows == [t : EventHours, v : Levels, type : Kinds]

Ascending(s) == \A i \in 1..(Len(s) - 1) : s[i].t <= s[i + 1].t
Alternating(s) == \A i \in 1..(Len(s) - 1) : s[i].type # s[i + 1].type

\* The event lists a cache file or a response can hold: ascending by
\* timestamp (equal timestamps allowed), high and low alternating.
EventSeqs ==
    UNION {{s \in [1..n -> Rows] : Ascending(s) /\ Alternating(s)} : n \in 0..MaxLen}

\* get_tide_data_now asks for [now - 24h, now + 24h].
FetchResults(clock) ==
    {s \in EventSeqs :
        \A i \in 1..Len(s) : /\ s[i].t >= clock - WindowHours
                             /\ s[i].t <= clock + WindowHours}

(***************************************************************************)
(* Python's round(): round half to even, on the fraction n / d, d > 0.     *)
(***************************************************************************)
Round(n, d) ==
    LET q == n \div d
        r == n - q * d
    IN  IF 2 * r < d THEN q
        ELSE IF 2 * r > d THEN q + 1
        ELSE IF q % 2 = 0 THEN q ELSE q + 1

\* faulty variant: N / 2 rounded half up
middle_pixel_half_up(N) == (N + 1) \div 2

middle_pixel(N) == Round(N, 2)

Positions(N) == 0..(N - 1)

\* Lights.clear
Clear(N) == [i \in Positions(N) |-> "off"]

\* datetime.strptime(row['t']) - datetime.now(), in hours
TimeDiff(row, clock) == row.t - clock

\* earliest_tide of the loop
EarliestTide(rows, clock) ==
    IF Len(rows) = 0 THEN 0 - EmptyEarliest ELSE TimeDiff(rows[1], clock)

\* faulty variant: a cache exactly 32 hours old counts as stale
NeedsRefreshInclusive(rows, clock) == EarliestTide(rows, clock) <= 0 - StaleHours

NeedsRefresh(rows, clock) == EarliestTide(rows, clock) < 0 - StaleHours

\* the rows with the time_diff column added
WithTimeDiff(rows, clock) ==
    [i \in 1..Len(rows) |->
        [t |-> rows[i].t, v |-> rows[i].v, type |-> rows[i].type,
         time_diff |-> TimeDiff(rows[i], clock),
         pixel |-> Round(TimeDiff(rows[i], clock) * 2, 1)]]

\* faulty variant: the rows are saved after the derived columns were added
WriteCsvDerived(rows) == <<WithTimeDiff(rows, 0)>>

\* csv.DictWriter over fieldnames: header, then one line per row
WriteCsv(rows) == <<rows>>

\* one more call of get_tide_data_now
Counted(n) == IF n < MaxFetches THEN n + 1 ELSE n

(***************************************************************************)
(* Phase computation, lines 230-248.                                       *)
(***************************************************************************)
Upcoming(rows) == {i \in 1..Len(rows) : rows[i].time_diff > 0}

\* the index at which the scan of line 231 breaks
FirstUpcoming(rows) ==
    CHOOSE i \in Upcoming(rows) : \A j \in Upcoming(rows) : i <= j

\* faulty variant: the previous event taken from the head of the list
PrevIndexHead(idx, len) == IF idx > 1 THEN 1 ELSE len

\* faulty variant: no wraparound, the first row is its own predecessor
PrevIndexNoWrap(idx, len) == IF idx > 1 THEN idx - 1 ELSE 1

\* data[idx - 1]: Python index -1 is the last element
PrevIndex(idx, len) == IF idx > 1 THEN idx - 1 ELSE len

NextTide(rows) == rows[FirstUpcoming(rows)]

PrevTide(rows) == rows[PrevIndex(FirstUpcoming(rows), Len(rows))]

Direction(row, old) ==
    IF row.type = "H" THEN "rising"
    ELSE IF row.type = "L" THEN "falling"
    ELSE old

CurrentTideLength(nxt, prv) == nxt.time_diff - prv.time_diff

TimeToNextTide(nxt) == nxt.time_diff

\* 1 - (time_to_next_tide / current_tide_length), as a fraction <<n, d>>, d > 0
Proportion(nxt, prv) ==
    LET len == CurrentTideLength(nxt, prv)
        ttn == TimeToNextTide(nxt)
    IN  IF len > 0 THEN <<len - ttn, len>> ELSE <<ttn - len, 0 - len>>

IsZero(p) == p[1] = 0
IsOne(p) == p[1] = p[2]
\* p <= q on fractions with positive denominators
FracLeq(p, q) == p[1] * q[2] <= q[1] * p[2]

(***************************************************************************)
(* Rendering, lines 257-291.                                               *)
(***************************************************************************)
\* faulty variant: the count taken from the remaining share of the cycle
PixelCountRemaining(N, p) == Round(N * (p[2] - p[1]), p[2])

\* round(num_pixels_to_use * proportion_to_light)
PixelCount(N, p) == Round(N * p[1], p[2])

\* range(a, b, step) for step > 0, as a set
Range(a, b, step) == {i \in a..(b - 1) : (i - a) % step = 0}

\* faulty variant: the progress == 0 case lights the even positions
PixelsToLightEven(N, dir, p) ==
    IF IsZero(p) THEN Range(0, N, 2)
    ELSE IF IsOne(p) THEN Range(0, N, 2)
    ELSE IF dir = "rising" THEN Range(0, PixelCount(N, p), 1)
    ELSE Range(N - PixelCount(N, p), N, 1)

\* faulty variant: the falling bar anchored at the left like the rising one
PixelsToLightLeft(N, dir, p) ==
    IF IsZero(p) THEN Range(1, N, 2)
    ELSE IF IsOne(p) THEN Range(0, N, 2)
    ELSE Range(0, PixelCount(N, p), 1)

PixelsToLight(N, dir, p) ==
    IF IsZero(p) THEN Range(1, N, 2)
    ELSE IF IsOne(p) THEN Range(0, N, 2)
    ELSE IF dir = "rising" THEN Range(0, PixelCount(N, p), 1)
    ELSE Range(N - PixelCount(N, p), N, 1)

\* faulty variant: the color follows the direction in every case
LightColorByDirection(dir, p) ==
    IF dir = "rising" THEN "rising_color" ELSE "falling_color"

LightColor(dir, p) ==
    IF IsZero(p) THEN "falling_color"
    ELSE IF IsOne(p) THEN "rising_color"
    ELSE IF dir = "rising" THEN "rising_color"
    ELSE "falling_color"

\* the loop of lines 285-291
ApplyPixels(N, lit, color) ==
    [i \in Positions(N) |-> IF i \in lit THEN color ELSE "off"]

(***************************************************************************)
(* The program.                                                            *)
(***************************************************************************)
Init ==
    /\ num_pixels_to_use \in StripLengths
    /\ now \in Hours
    /\ data_csv \in {<<>>} \cup {<<s>> : s \in EventSeqs}
    /\ data = <<>>
    /\ next_tide = <<>>
    /\ prev_tide = <<>>
    /\ tide_direction = "unbound"
    /\ proportion_to_light = <<>>
    /\ pixels_to_light = {}
    /\ light_color = "unbound"
    /\ tide_position_strip = <<>>
    /\ pc = "bootstrap"
    /\ fetches = 0
    /\ fault = "none"

\* lines 151-166: clear, light the middle pixel, look for data.csv
Bootstrap ==
    /\ pc = "bootstrap"
    /\ tide_position_strip' =
         [Clear(num_pixels_to_use) EXCEPT ![middle_pixel(num_pixels_to_use)] = "white"]
    /\ pc' = IF data_csv = <<>> THEN "boot_fetch" ELSE "loop_read"
    /\ UNCHANGED <<fetches, num_pixels_to_use, now, data_csv, data, next_tide, prev_tide,
                   tide_direction, proportion_to_light, pixels_to_light,
                   light_color, fault>>

\* lines 169-181: no data.csv, the request succeeds and the rows are saved
BootFetch ==
    /\ pc = "boot_fetch"
    /\ \E s \in FetchResults(now) :
         /\ data' = s
         /\ data_csv' = WriteCsv(s)
    /\ fetches' = Counted(fetches)
    /\ pc' = "loop_read"
    /\ UNCHANGED <<num_pixels_to_use, now, next_tide, prev_tide, tide_direction,
                   proportion_to_light, pixels_to_light, light_color,
                   tide_position_strip, fault>>

\* lines 171-172: requests.get, response.json() or ['predictions'] raises
BootFetchFail ==
    /\ pc = "boot_fetch"
    /\ pc' = "exited"
    /\ fault' = "FetchError"
    /\ fetches' = Counted(fetches)
    /\ UNCHANGED <<num_pixels_to_use, now, data_csv, data, next_tide, prev_tide,
                   tide_direction, proportion_to_light, pixels_to_light,
                   light_color, tide_position_strip>>

\* lines 185-197: read data.csv, compute earliest_tide, decide on a refresh
LoopRead ==
    /\ pc = "loop_read"
    /\ data' = data_csv[1]
    /\ pc' = IF NeedsRefresh(data_csv[1], now) THEN "loop_fetch" ELSE "phase"
    /\ UNCHANGED <<fetches, num_pixels_to_use, now, data_csv, next_tide, prev_tide,
                   tide_direction, proportion_to_light, pixels_to_light,
                   light_color, tide_position_strip, fault>>

\* lines 200-208: the request succeeds, data.csv is rewritten
LoopFetch ==
    /\ pc = "loop_fetch"
    /\ \E s \in FetchResults(now) :
         /\ data' = s
         /\ data_csv' = WriteCsv(s)
    /\ fetches' = Counted(fetches)
    /\ pc' = "phase"
    /\ UNCHANGED <<num_pixels_to_use, now, next_tide, prev_tide, tide_direction,
                   proportion_to_light, pixels_to_light, light_color,
                   tide_position_strip, fault>>

\* lines 200-201: the request or the decoding of its response raises
LoopFetchFail ==
    /\ pc = "loop_fetch"
    /\ pc' = "exited"
    /\ fault' = "FetchError"
    /\ fetches' = Counted(fetches)
    /\ UNCHANGED <<num_pixels_to_use, now, data_csv, data, next_tide, prev_tide,
                   tide_direction, proportion_to_light, pixels_to_light,
                   light_color, tide_position_strip>>

\* faulty variant: with no row ahead the last row becomes prev_tide
ScannedPrevLast(rows, old) ==
    IF Upcoming(rows) = {}
    THEN IF Len(rows) > 0 THEN <<rows[Len(rows)]>> ELSE old
    ELSE <<PrevTide(rows)>>

\* the rows of lines 219-228 and the bindings left by the scan of lines 231-235
ScannedNext(rows, old) == IF Upcoming(rows) = {} THEN old ELSE <<NextTide(rows)>>
ScannedPrev(rows, old) == IF Upcoming(rows) = {} THEN old ELSE <<PrevTide(rows)>>

\* lines 214-238: no row is ahead of now and next_tide was never bound
PhaseNameError ==
    /\ pc = "phase"
    /\ LET rows == WithTimeDiff(data, now) IN
         /\ ScannedNext(rows, next_tide) = <<>>
         /\ data' = rows
    /\ pc' = "exited"
    /\ fault' = "NameError"
    /\ UNCHANGED <<fetches, num_pixels_to_use, now, data_csv, next_tide, prev_tide,
                   tide_direction, proportion_to_light, pixels_to_light,
                   light_color, tide_position_strip>>

\* lines 214-248: current_tide_length is 0 and the division raises
PhaseZeroDivision ==
    /\ pc = "phase"
    /\ LET rows == WithTimeDiff(data, now)
           nxt  == ScannedNext(rows, next_tide)
           prv  == ScannedPrev(rows, prev_tide)
       IN  /\ nxt # <<>>
           /\ CurrentTideLength(nxt[1], prv[1]) = 0
           /\ data' = rows
           /\ next_tide' = nxt
           /\ prev_tide' = prv
           /\ tide_direction' = Direction(nxt[1], tide_direction)
    /\ pc' = "exited"
    /\ fault' = "ZeroDivisionError"
    /\ UNCHANGED <<fetches, num_pixels_to_use, now, data_csv, proportion_to_light,
                   pixels_to_light, light_color, tide_position_strip>>

\* lines 214-293: phase computed, pattern written to the strip and shown
PhaseRender ==
    /\ pc = "phase"
    /\ LET rows == WithTimeDiff(data, now)
           nxt  == ScannedNext(rows, next_tide)
           prv  == ScannedPrev(rows, prev_tide)
       IN  /\ nxt # <<>>
           /\ CurrentTideLength(nxt[1], prv[1]) # 0
           /\ LET dir == Direction(nxt[1], tide_direction)
                  p   == Proportion(nxt[1], prv[1])
                  lit == PixelsToLight(num_pixels_to_use, dir, p)
                  col == LightColor(dir, p)
              IN  /\ data' = rows
                  /\ next_tide' = nxt
                  /\ prev_tide' = prv
                  /\ tide_direction' = dir
                  /\ proportion_to_light' = <<p>>
                  /\ pixels_to_light' = lit
                  /\ light_color' = col
                  /\ tide_position_strip' = ApplyPixels(num_pixels_to_use, lit, col)
    /\ pc' = "sleep"
    /\ UNCHANGED <<fetches, num_pixels_to_use, data_csv, now, fault>>

\* lines 295-297: sleep(300); the clock stays on its grid point or moves on
Sleep ==
    /\ pc = "sleep"
    /\ \E h \in {now, now + Grain} :
         /\ h <= MaxHour
         /\ now' = h
    /\ pc' = "loop_read"
    /\ UNCHANGED <<fetches, num_pixels_to_use, data_csv, data, next_tide, prev_tide,
                   tide_direction, proportion_to_light, pixels_to_light,
                   light_color, tide_position_strip, fault>>

Next ==
    \/ Bootstrap
    \/ BootFetch
    \/ BootFetchFail
    \/ LoopRead
    \/ LoopFetch
    \/ LoopFetchFail
    \/ PhaseNameError
    \/ PhaseZeroDivision
    \/ PhaseRender
    \/ Sleep

Spec == Init /\ [][Next]_vars

(***************************************************************************)
(* The render step on its own: lines 257-293 applied to any direction and  *)
(* any progress in [0, 1] with denominator up to MaxDen.                   *)
(***************************************************************************)
Fractions == {f \in (0..MaxDen) \X (1..MaxDen) : f[1] <= f[2]}

RenderInit ==
    /\ num_pixels_to_use \in 1..MaxStrip
    /\ now = 0
    /\ data_csv = <<>>
    /\ data = <<>>
    /\ next_tide = <<>>
    /\ prev_tide = <<>>
    /\ tide_direction = "unbound"
    /\ proportion_to_light = <<>>
    /\ pixels_to_light = {}
    /\ light_color = "unbound"
    /\ tide_position_strip = Clear(num_pixels_to_use)
    /\ pc = "render"
    /\ fetches = 0
    /\ fault = "none"

RenderStep ==
    /\ pc = "render"
    /\ \E dir \in {"rising", "falling"}, p \in Fractions :
         LET lit == PixelsToLight(num_pixels_to_use, dir, p)
             col == LightColor(dir, p)
         IN  /\ tide_direction' = dir
             /\ proportion_to_light' = <<p>>
             /\ pixels_to_light' = lit
             /\ light_color' = col
             /\ tide_position_strip' = ApplyPixels(num_pixels_to_use, lit, col)
    /\ UNCHANGED <<fetches, num_pixels_to_use, now, data_csv, data, next_tide, prev_tide,
                   pc, fault>>

RenderNext == RenderStep

RenderSpec == RenderInit /\ [][RenderNext]_vars

(***************************************************************************)
(* Properties.                                                             *)
(***************************************************************************)
\* the phase of the current iteration has been computed from `data`
PhaseComputed == pc = "sleep" \/ fault = "ZeroDivisionError"

\* the rows of `data` ahead of now
Ahead == {i \in 1..Len(data) : data[i].t > now}

\* positions of the strip that are not off
Lit == {i \in DOMAIN tide_position_strip : tide_position_strip[i] # "off"}

\* the strip shows exactly the positions `lit`, all in color `col`
Shows(lit, col) ==
    /\ DOMAIN tide_position_strip = Positions(num_pixels_to_use)
    /\ \A i \in Positions(num_pixels_to_use) :
         tide_position_strip[i] = IF i \in lit THEN col ELSE "off"

\* C1: when some row of the ascending list is later than now, next_tide is
\* the lowest-index row with timestamp > now and, when that row is not the
\* first one, prev_tide is the row right before it, so that
\* prev.t <= now < next.t.
C1_PhaseBracketing ==
    (PhaseComputed /\ Ahead # {}) =>
        \E i \in Ahead :
            /\ \A j \in Ahead : i <= j
            /\ next_tide = <<data[i]>>
            /\ (i > 1 => /\ prev_tide = <<data[i - 1]>>
                         /\ prev_tide[1].t <= now
                         /\ now < next_tide[1].t)

\* C1 witness: a three-row list whose last row is the only one ahead of now
C1_Witness ==
    /\ pc = "sleep"
    /\ Len(data) = 3
    /\ Ahead = {3}
    /\ data[1].t < data[2].t
    /\ next_tide = <<data[3]>>
    /\ prev_tide = <<data[2]>>

StaleCache(rows, clock) ==
    \/ Len(rows) = 0
    \/ clock - rows[1].t > StaleHours

\* C3: an iteration refetches iff the loaded cache is empty or its first
\* event is strictly more than 32 hours before now.
C3_StalenessDecision ==
    [][(pc = "loop_read" /\ pc' # "loop_read") =>
          ((pc' = "loop_fetch") <=> StaleCache(data_csv[1], now))]_vars

\* C3 witness: a cache whose first event is exactly 32 hours old went on to
\* the phase computation without a refetch
C3_Witness ==
    /\ pc = "phase"
    /\ data # <<>>
    /\ data = data_csv[1]
    /\ now - data[1].t = StaleHours

\* C4: a fetch that fails inside the loop does not end the process; the
\* controller keeps its data, renders from it and fetches again next cycle.
C4_FetchFailureRecoverable ==
    [][pc = "loop_fetch" => pc' # "exited"]_vars

\* C5: an iteration in which no row of the in-memory list is later than now
\* does not write a phase pattern to the strip.
C5_NoRenderWithoutBracket ==
    pc = "sleep" => Ahead # {}

\* C6: previous and next event with the same timestamp do not end the
\* process with an arithmetic fault.
C6_ZeroCycleNoFault ==
    fault # "ZeroDivisionError"

\* C7: the progress computed by an iteration lies in [0, 1].
C7_ProgressInUnitInterval ==
    (pc = "sleep" /\ proportion_to_light # <<>>) =>
        /\ 0 <= proportion_to_light[1][1]
        /\ proportion_to_light[1][1] <= proportion_to_light[1][2]

\* the odd and the even positions of the strip
OddPositions == {i \in Positions(num_pixels_to_use) : i % 2 = 1}
EvenPositions == {i \in Positions(num_pixels_to_use) : i % 2 = 0}

\* C8: when the computed progress is exactly 0 the strip shows exactly the
\* odd positions in the falling color, whatever the direction.
C8_LowTideSignature ==
    (pc = "sleep" /\ proportion_to_light # <<>> /\ proportion_to_light[1][1] = 0) =>
        Shows(OddPositions, "falling_color")

\* C8 witness: now is exactly the time of the previous event, the next event
\* is a High, and the 10-pixel strip shows 1, 3, 5, 7, 9
C8_Witness ==
    /\ pc = "sleep"
    /\ proportion_to_light # <<>> /\ proportion_to_light[1][1] = 0
    /\ tide_direction = "rising"
    /\ prev_tide[1].t = now
    /\ num_pixels_to_use = 10
    /\ Lit = {1, 3, 5, 7, 9}

\* C9: when the progress is exactly 1 the strip shows exactly the even
\* positions in the rising color, whatever the direction.
C9_HighTideSignature ==
    (proportion_to_light # <<>>
        /\ proportion_to_light[1][1] = proportion_to_light[1][2]) =>
        Shows(EvenPositions, "rising_color")

\* C9 witness: progress 1 rendered for a falling tide on an 8-pixel strip
C9_Witness ==
    /\ proportion_to_light # <<>>
    /\ proportion_to_light[1][1] = proportion_to_light[1][2]
    /\ tide_direction = "falling"
    /\ num_pixels_to_use = 8
    /\ Lit = {0, 2, 4, 6}

\* two successive renders of the same direction, progress not decreasing
SameDirectionStep ==
    /\ proportion_to_light # <<>>
    /\ proportion_to_light' # <<>>
    /\ tide_direction' = tide_direction
    /\ FracLeq(proportion_to_light[1], proportion_to_light'[1])

Interior(p) == 0 < p[1] /\ p[1] < p[2]

\* C10 as stated: for fixed N and direction the number of lit positions is
\* non-decreasing in progress over all of [0, 1], 0 and 1 included.
C10_MonotoneFillClosed ==
    [][SameDirectionStep => Cardinality(Lit) <= Cardinality(Lit')]_vars

\* C10 amended: for fixed N and direction the number of lit positions is
\* non-decreasing in progress over the open interval 0 < progress < 1.
C10_MonotoneFillInterior ==
    [][(SameDirectionStep /\ Interior(proportion_to_light[1])
                          /\ Interior(proportion_to_light'[1]))
          => Cardinality(Lit) <= Cardinality(Lit')]_vars

\* C10 witness: an interior render of a falling tide that lights more than
\* one position but not the whole strip
C10_Witness ==
    /\ proportion_to_light # <<>>
    /\ Interior(proportion_to_light[1])
    /\ tide_direction = "falling"
    /\ Cardinality(Lit) > 1
    /\ Cardinality(Lit) < num_pixels_to_use

\* round half away from zero of n / d for n >= 0, d > 0
RoundHalfUp(n, d) == (2 * n + d) \div (2 * d)

\* C11: k is N * progress rounded half away from zero (an exact half rounds
\* up) and clamped to [0, N], so no position outside [0, N) is in the list
\* of positions to light.
C11_RoundHalfUpAndClamp ==
    (pc = "sleep" /\ proportion_to_light # <<>>) =>
        LET p == proportion_to_light[1]
            N == num_pixels_to_use
            r == RoundHalfUp(N * p[1], p[2])
            k == IF r > N THEN N ELSE r
        IN  /\ pixels_to_light \subseteq Positions(N)
            /\ (p[1] # 0 /\ p[1] # p[2]) => Cardinality(pixels_to_light) = k

\* the marker of the bootstrap: one white pixel at round(N / 2)
MarkerOnly ==
    /\ middle_pixel(num_pixels_to_use) \in Positions(num_pixels_to_use)
    /\ 2 * middle_pixel(num_pixels_to_use) - num_pixels_to_use \in {-1, 0, 1}
    /\ DOMAIN tide_position_strip = Positions(num_pixels_to_use)
    /\ \A i \in Positions(num_pixels_to_use) :
         tide_position_strip[i] =
            IF i = Round(num_pixels_to_use, 2) THEN "white" ELSE "off"

\* C12: the bootstrap clears the strip and lights exactly the position
\* round(N / 2), a valid position, before the cache is loaded or a fetch is
\* made, and that marker is the only lit position until the first render.
C12_ReadyIndicator ==
    /\ (tide_position_strip = <<>>) => (pc = "bootstrap" /\ fetches = 0 /\ data = <<>>)
    /\ (pc # "bootstrap" /\ proportion_to_light = <<>>) => MarkerOnly

\* C12 witness: the marker is still the only lit pixel after the first
\* fetch returned, on a strip of three pixels (round(1.5) = 2)
C12_Witness ==
    /\ pc = "phase"
    /\ fetches = 1
    /\ proportion_to_light = <<>>
    /\ num_pixels_to_use = 3
    /\ Lit = {2}

\* C13 as stated: from a missing or empty cache exactly one fetch is invoked
\* before the first render.
C13_OneFetchBeforeFirstRender ==
    /\ (fetches = 0 /\ (data_csv = <<>> \/ data_csv = << <<>> >>))
          => proportion_to_light = <<>>
    /\ proportion_to_light = <<>> => fetches <= 1

\* C13 amended: no render happens before a fetch when the cache starts
\* missing or empty; a fetch result is persisted as fetched; and once a fetch
\* was made, another one is invoked only when the persisted list is empty or
\* its first event is more than 32 hours before now.
C13_FetchOnceWhileFresh ==
    /\ (fetches = 0 /\ (data_csv = <<>> \/ data_csv = << <<>> >>))
          => proportion_to_light = <<>>
    /\ (fetches >= 1 /\ pc \in {"loop_read", "phase"} /\ proportion_to_light = <<>>)
          => data_csv = <<data>>
    /\ (fetches >= 1 /\ pc = "loop_fetch")
          => \/ data_csv[1] = <<>>
             \/ now - data_csv[1][1].t > StaleHours

\* C13 witness: first render done after exactly one fetch from a missing
\* or empty cache, whose result is what data.csv holds
C13_Witness ==
    /\ pc = "sleep"
    /\ fetches = 1
    /\ data_csv # <<>> /\ Len(data_csv[1]) > 0
    /\ Len(data) = Len(data_csv[1])
    /\ now - data_csv[1][1].t <= StaleHours
    /\ Ahead # {}

\* the iteration at hand renders with the bracketing pair of the last one
SamePairStep ==
    /\ pc = "phase" /\ pc' = "sleep"
    /\ proportion_to_light # <<>>
    /\ next_tide'[1].t = next_tide[1].t /\ next_tide'[1].type = next_tide[1].type
    /\ prev_tide'[1].t = prev_tide[1].t /\ prev_tide'[1].type = prev_tide[1].type
    /\ Interior(proportion_to_light[1])
    /\ Interior(proportion_to_light'[1])

\* C14: over successive cycles with the same bracketing pair and a Low as
\* next event, the number of lit positions does not grow from one cycle to
\* the next.
C14_FallingBarEmpties ==
    [][(SamePairStep /\ next_tide[1].type = "L")
          => Cardinality(Lit') <= Cardinality(Lit)]_vars

CacheFields == {"t", "v", "type"}

\* C15: data.csv changes only in a step in which a fetch returned, and then
\* holds exactly the fetched list; its rows never carry a field besides
\* t, v and type.
C15_CacheWriteDiscipline ==
    [][/\ (data_csv' # data_csv) =>
            /\ pc \in {"boot_fetch", "loop_fetch"}
            /\ pc' # "exited"
            /\ data' \in FetchResults(now)
            /\ data_csv' = <<data'>>
       /\ \A f \in 1..Len(data_csv') : \A i \in 1..Len(data_csv'[f]) :
            DOMAIN data_csv'[f][i] = CacheFields]_vars

\* C15 witness: after a fetch and a render the rows in memory carry
\* time_diff and pixel, the rows of data.csv do not
C15_Witness ==
    /\ pc = "sleep"
    /\ fetches >= 1
    /\ Len(data) > 0
    /\ DOMAIN data[1] = CacheFields \cup {"time_diff", "pixel"}
    /\ Len(data_csv[1]) = Len(data)
    /\ DOMAIN data_csv[1][1] = CacheFields

\* C16: the progress computed by the loop is never 1, and whenever now is
\* the timestamp of a cached event the progress is 0 and the odd positions
\* are shown in the falling color.
C16_HighSignatureUnreachable ==
    (pc = "sleep" /\ proportion_to_light # <<>>) =>
        /\ proportion_to_light[1][1] # proportion_to_light[1][2]
        /\ (\E i \in 1..Len(data) : data[i].t = now) =>
              /\ proportion_to_light[1][1] = 0
              /\ Shows(OddPositions, "falling_color")

\* the first cached event is after now and the last one later than the first
Wraparound ==
    /\ Len(data) > 0
    /\ data[1].t > now
    /\ data[Len(data)].t > data[1].t

\* C17: when the first cached event is after now and the last one is later
\* than the first, prev_tide is the last row, the cycle length is negative,
\* the progress exceeds 1 and every position shows the direction's color.
C17_WraparoundLightsAll ==
    (PhaseComputed /\ Wraparound) =>
        /\ pc = "sleep"
        /\ next_tide = <<data[1]>>
        /\ prev_tide = <<data[Len(data)]>>
        /\ next_tide[1].time_diff - prev_tide[1].time_diff < 0
        /\ proportion_to_light[1][1] > proportion_to_light[1][2]
        /\ \A i \in Positions(num_pixels_to_use) :
             tide_position_strip[i] =
                IF next_tide[1].type = "H" THEN "rising_color" ELSE "falling_color"

\* C17 witness: a falling wraparound on the 10-pixel strip, all ten lit
C17_Witness ==
    /\ pc = "sleep"
    /\ Wraparound
    /\ next_tide[1].type = "L"
    /\ num_pixels_to_use = 10
    /\ Lit = 0..9

\* no row of the list just read is later than now
NoneAhead == \A i \in 1..Len(data) : data[i].t <= now

\* C18: an iteration that finds no cached event after now fails when
\* next_tide was never bound (the first iteration); otherwise it keeps
\* next_tide and prev_tide with their time differences, sets the strip to
\* the same lit set and color as before and makes no fetch.
C18_LoopCarriedPair ==
    [][(pc = "phase" /\ pc' # "phase" /\ NoneAhead) =>
          IF next_tide = <<>>
          THEN pc' = "exited" /\ fault' = "NameError"
                 /\ tide_position_strip' = tide_position_strip
          ELSE /\ pc' = "sleep"
               /\ next_tide' = next_tide
               /\ prev_tide' = prev_tide
               /\ proportion_to_light' = proportion_to_light
               /\ tide_position_strip' = tide_position_strip
               /\ light_color' = light_color
               /\ fetches' = fetches
               /\ data_csv' = data_csv]_vars

\* C18 witness: a second iteration rendered a lit pattern although no row
\* of its list is later than now
C18_Witness ==
    /\ pc = "sleep"
    /\ Len(data) > 0
    /\ Ahead = {}
    /\ next_tide[1].time_diff > 0
    /\ Lit # {}

====
